---------------------------- MODULE Spec2Model ----------------------------
(***************************************************************************)
(* The particle ring of src/index.js: the sampler loop that creates the    *)
(* particles (radius, angle, speed, position, colour) and the per-frame    *)
(* animate() callback that advances them.  The file holds two copies of    *)
(* the script, which differ in the ring band, the speed constant and the   *)
(* starfield step; Init picks one of them.                                 *)
(*                                                                         *)
(* Numbers.  A JavaScript double is modelled as a fixed-point integer in   *)
(* units of 1/Scale: + and - are exact, * and / truncate to the grid.      *)
(* The three non-finite doubles are three reserved integers.  The          *)
(* Float32Array buffers hold single-precision values: a store rounds to    *)
(* the coarser grid of F32Step units (Fround).                             *)
(***************************************************************************)
EXTENDS Integers, Sequences, FiniteSets, TLC

VARIABLES
    innerRadius,       \* const innerRadius                (fixed point)
    outerRadius,       \* const outerRadius                (fixed point)
    speedConstant,     \* the literal of `speed = k / radius`
    starStep,          \* the literal of `starfield.rotation.y += k` (1e-4 rad)
    particleCount,     \* const particleCount
    particlesData,     \* sequence of [radius, angle, speed]
    positions,         \* Float32Array(particleCount * 3), indexed from 0
    colors,            \* Float32Array(particleCount * 3), indexed from 0
    i,                 \* the loop variable of the running for loop
    u1, u2,            \* getNormalRandom's locals
    pc,                \* where the single thread of control is
    pendingFrames,     \* callbacks registered by requestAnimationFrame, not yet run
    needsUpdate,       \* particleRing.geometry.attributes.position.needsUpdate
    uploaded,          \* the renderer's copy of the position buffer at its last draw
    cubeRotation,      \* cube.rotation.x = cube.rotation.y (milliradians)
    starfieldRotation, \* starfield.rotation.y (1e-4 rad)
    listening,         \* the resize listener is registered
    rendererSize,      \* the size last given to renderer.setSize
    cameraAspect,      \* camera.aspect
    created            \* history: each particle as the sampler loop pushed it

vars == <<innerRadius, outerRadius, speedConstant, starStep, particleCount,
          particlesData, positions, colors, i, u1, u2, pc, pendingFrames,
          needsUpdate, uploaded, cubeRotation, starfieldRotation, listening,
          rendererSize, cameraAspect, created>>

config == <<innerRadius, outerRadius, speedConstant, starStep, particleCount>>

---------------------------------------------------------------------------
(* Bounds of the model. *)

\* particleCount is 20000 in the source; the model builds this many particles.
MaxParticles == 2

\* animate() runs for ever; the model runs this many frames.
MaxTicks == 2

---------------------------------------------------------------------------
(* Fixed-point doubles. *)

Scale == 10 ^ 3

PosInf == 2 ^ 30
NegInf == 0 - PosInf
NaN == PosInf + 1

IsNaN(x) == x = NaN
IsFinite(x) == x # NaN /\ x # PosInf /\ x # NegInf

Sign(x) == IF x > 0 THEN 1 ELSE IF x < 0 THEN 0 - 1 ELSE 0

Signed(s) == IF s > 0 THEN PosInf ELSE IF s < 0 THEN NegInf ELSE NaN

\* a + b
Add(a, b) ==
    IF IsNaN(a) \/ IsNaN(b) THEN NaN
    ELSE IF IsFinite(a) /\ IsFinite(b) THEN a + b
    ELSE IF IsFinite(a) THEN b
    ELSE IF IsFinite(b) \/ a = b THEN a
    ELSE NaN

\* a - b
Sub(a, b) ==
    IF IsNaN(b) THEN NaN
    ELSE IF b = PosInf THEN Add(a, NegInf)
    ELSE IF b = NegInf THEN Add(a, PosInf)
    ELSE Add(a, 0 - b)

\* a * b
Mul(a, b) ==
    IF IsNaN(a) \/ IsNaN(b) THEN NaN
    ELSE IF IsFinite(a) /\ IsFinite(b) THEN (a * b) \div Scale
    ELSE Signed(Sign(a) * Sign(b))

\* a / b
Div(a, b) ==
    IF IsNaN(a) \/ IsNaN(b) THEN NaN
    ELSE IF ~IsFinite(a) THEN (IF IsFinite(b) THEN Signed(Sign(a) * (IF b < 0 THEN 0 - 1 ELSE 1)) ELSE NaN)
    ELSE IF ~IsFinite(b) THEN 0
    ELSE IF b = 0 THEN Signed(Sign(a))
    ELSE IF b < 0 THEN (0 - a * Scale) \div (0 - b)
    ELSE (a * Scale) \div b

\* a < b
Lt(a, b) == ~IsNaN(a) /\ ~IsNaN(b) /\ a < b

\* Math.max(a, b)
MathMax(a, b) == IF IsNaN(a) \/ IsNaN(b) THEN NaN ELSE IF a > b THEN a ELSE b

\* Math.min(a, b)
MathMin(a, b) == IF IsNaN(a) \/ IsNaN(b) THEN NaN ELSE IF a < b THEN a ELSE b

\* The grid of a Float32Array element.
F32Step == 2 ^ 2

\* The value a Float32Array element holds after `buffer[k] = x`.
Fround(x) == IF IsFinite(x) THEN ((x + F32Step \div 2) \div F32Step) * F32Step ELSE x

---------------------------------------------------------------------------
(* Math.PI, Math.cos, Math.sin, Math.log, Math.sqrt. *)

Pi == 3142

TwoPi == 2 * Pi

HalfPi == Pi \div 2

\* cos on [0, pi/2]: (pi^2 - 4 y^2) / (pi^2 + y^2), evaluated in centiradians.
CosQ(y) ==
    LET c == y \div 10
        p == Pi \div 10
    IN  ((p * p - 4 * c * c) * Scale) \div (p * p + c * c)

\* Math.cos(a), a >= 0 finite.
Cos(a) ==
    IF ~IsFinite(a) THEN NaN
    ELSE LET r == a % TwoPi
             x == IF r > Pi THEN TwoPi - r ELSE r
         IN  IF x <= HalfPi THEN CosQ(x) ELSE 0 - CosQ(Pi - x)

\* Math.sin(a) = cos(a - pi/2), a >= 0 finite.
Sin(a) == IF ~IsFinite(a) THEN NaN ELSE Cos(a + TwoPi - HalfPi)

\* The values Math.random() returns to getNormalRandom in the model:
\* 0, 0.001, 0.25, 0.5.
URandom == {0, 1, 250, 500}

\* The values Math.random() returns for the angle in the model: 0, 0.25.
AngleRandom == {0, 250}

\* Math.log(u), tabulated at the values of URandom.
Log(u) ==
    CASE u = 0 -> NegInf
      [] u = 1 -> 0 - 6908
      [] u = 250 -> 0 - 1386
      [] u = 500 -> 0 - 693

\* The largest s in lo..hi with s * s <= n, by bisection (lo * lo <= n).
RECURSIVE Isqrt(_, _, _)
Isqrt(n, lo, hi) ==
    IF lo >= hi THEN lo
    ELSE LET mid == (lo + hi + 1) \div 2
         IN  IF mid * mid <= n THEN Isqrt(n, mid, hi) ELSE Isqrt(n, lo, mid - 1)

\* Math.sqrt(x)
Sqrt(x) ==
    IF IsNaN(x) \/ x = NegInf THEN NaN
    ELSE IF x = PosInf THEN PosInf
    ELSE IF x < 0 THEN NaN
    ELSE Isqrt(x * Scale, 0, 4 * Scale)

---------------------------------------------------------------------------
(* The two copies of the script. *)

Copy1 == [innerRadius |-> 2 * Scale, outerRadius |-> 5 * Scale,
          speedConstant |-> Scale \div 10, starStep |-> 3]

Copy2 == [innerRadius |-> 3 * Scale, outerRadius |-> 5 * Scale,
          speedConstant |-> (4 * Scale) \div 10, starStep |-> 1]

\* THREE.Color('white'), ('yellow'), ('orange'): r, g, b.
color1 == <<Scale, Scale, Scale>>
color2 == <<Scale, Scale, 0>>
color3 == <<Scale, (165 * Scale) \div 255, 0>>

\* const meanRadius, const stdDevRadius
meanRadius == Div(Add(innerRadius, outerRadius), 2 * Scale)
stdDevRadius == Div(Sub(outerRadius, innerRadius), 4 * Scale)

\* The last two lines of getNormalRandom: the Box-Muller formula.
BoxMuller(a, b, mean, stdDev) ==
    LET z == Mul(Sqrt(Mul(0 - 2 * Scale, Log(a))), Cos(Mul(Mul(2 * Scale, Pi), b)))
    IN  Add(Mul(z, stdDev), mean)

\* radius = Math.max(innerRadius, Math.min(outerRadius, radius))
ClampUpperOnly(radius) == MathMin(outerRadius, radius)

Clamp(radius) == MathMax(innerRadius, MathMin(outerRadius, radius))

\* Color.lerpColors(c1, c2, alpha): c1 + (c2 - c1) * alpha, per channel.
lerpColors(c1, c2, alpha) ==
    [k \in 1..3 |-> Add(c1[k], Mul(Sub(c2[k], c1[k]), alpha))]

\* (radius - innerRadius) / (outerRadius - innerRadius)
normalizedRadius(radius) == Div(Sub(radius, innerRadius), Sub(outerRadius, innerRadius))

\* tempColor after the if/else on normalizedRadius.
GradientColorUndoubled(radius) ==
    LET t == normalizedRadius(radius)
    IN  IF Lt(t, Scale \div 2)
        THEN lerpColors(color1, color2, t)
        ELSE lerpColors(color2, color3, Sub(t, Scale \div 2))

GradientColor(radius) ==
    LET t == normalizedRadius(radius)
    IN  IF Lt(t, Scale \div 2)
        THEN lerpColors(color1, color2, Mul(t, 2 * Scale))
        ELSE lerpColors(color2, color3, Mul(Sub(t, Scale \div 2), 2 * Scale))

\* particlesData[k], k counted from 0 as in the source.
At(k) == particlesData[k + 1]

\* new Float32Array(n): n zeros.
Float32Array(n) == [k \in 0..(n - 1) |-> 0]

---------------------------------------------------------------------------
(* The sampler loop. *)

\* const angle = Math.random() * Math.PI * 2
RandomAngle(u) == Mul(Mul(u, Pi), 2 * Scale)

\* const speed = k / radius
SpeedProportional(radius) == Mul(speedConstant, radius)

Speed(radius) == Div(speedConstant, radius)

\* positions[k * 3 .. k * 3 + 2] as the sampler loop writes them.
InitialPosition(buf, k, angle, radius) ==
    [buf EXCEPT ![k * 3] = Fround(Mul(Cos(angle), radius)),
                ![k * 3 + 1] = Fround(Mul(Sin(angle), radius)),
                ![k * 3 + 2] = 0]

\* colors[k * 3 .. k * 3 + 2] = tempColor.r, .g, .b
StoreColor(buf, k, c) ==
    [buf EXCEPT ![k * 3] = Fround(c[1]),
                ![k * 3 + 1] = Fround(c[2]),
                ![k * 3 + 2] = Fround(c[3])]

\* The windows the browser may give the page: <<innerWidth, innerHeight>>.
WindowSizes == {<<4, 3>>, <<16, 9>>}

\* window.innerWidth / window.innerHeight
Aspect(w) == Div(w[1] * Scale, w[2] * Scale)

\* The state in which the script reaches the particle ring section, for a
\* copy of the script and a particle count.
InitWith(copies, counts) ==
    /\ \E c \in copies :
          /\ innerRadius = c.innerRadius
          /\ outerRadius = c.outerRadius
          /\ speedConstant = c.speedConstant
          /\ starStep = c.starStep
    /\ particleCount \in counts
    /\ particlesData = <<>>
    /\ positions = Float32Array(particleCount * 3)
    /\ colors = Float32Array(particleCount * 3)
    /\ i = 0
    /\ u1 = 0
    /\ u2 = 0
    /\ pc = "for"
    /\ pendingFrames = 0
    /\ needsUpdate = FALSE
    /\ uploaded = <<>>
    /\ cubeRotation = 0
    /\ starfieldRotation = 0
    /\ listening = FALSE
    /\ rendererSize = <<4, 3>>
    /\ cameraAspect = Aspect(<<4, 3>>)
    /\ created = <<>>

Init == InitWith({Copy1, Copy2}, {MaxParticles})

\* for (let i = 0; i < particleCount; i++): the test, and the entry into
\* getNormalRandom (let u1 = 0, u2 = 0) when it passes.
ForTest ==
    /\ pc = "for"
    /\ pc' = IF i < particleCount THEN "u1" ELSE "setup"
    /\ u1' = 0
    /\ u2' = 0
    /\ UNCHANGED <<config, particlesData, positions, colors, i, pendingFrames,
                   needsUpdate, uploaded, cubeRotation, starfieldRotation,
                   listening, rendererSize, cameraAspect, created>>

\* while (u1 === 0) u1 = Math.random(): one pass of the loop.
DrawU1Unchecked ==
    /\ pc = "u1"
    /\ \E u \in URandom : u1' = u
    /\ pc' = "u2"
    /\ UNCHANGED <<config, particlesData, positions, colors, i, u2,
                   pendingFrames, needsUpdate, uploaded, cubeRotation,
                   starfieldRotation, listening, rendererSize, cameraAspect,
                   created>>

DrawU1 ==
    /\ pc = "u1"
    /\ \E u \in URandom :
          /\ u1' = u
          /\ pc' = IF u = 0 THEN "u1" ELSE "u2"
    /\ UNCHANGED <<config, particlesData, positions, colors, i, u2,
                   pendingFrames, needsUpdate, uploaded, cubeRotation,
                   starfieldRotation, listening, rendererSize, cameraAspect,
                   created>>

\* while (u2 === 0) u2 = Math.random(): one pass of the loop.
DrawU2 ==
    /\ pc = "u2"
    /\ \E u \in URandom :
          /\ u2' = u
          /\ pc' = IF u = 0 THEN "u2" ELSE "body"
    /\ UNCHANGED <<config, particlesData, positions, colors, i, u1,
                   pendingFrames, needsUpdate, uploaded, cubeRotation,
                   starfieldRotation, listening, rendererSize, cameraAspect,
                   created>>

\* The rest of one pass of the sampler loop: getNormalRandom returns the
\* Box-Muller value (its locals are gone), then the clamp, the angle, the
\* speed, the push, the position, the colour, and i++.
Generate ==
    /\ pc = "body"
    /\ \E u \in AngleRandom :
          LET radius == Clamp(BoxMuller(u1, u2, meanRadius, stdDevRadius))
              angle == RandomAngle(u)
              speed == Speed(radius)
          IN  /\ particlesData' = Append(particlesData,
                     [radius |-> radius, angle |-> angle, speed |-> speed])
              /\ positions' = InitialPosition(positions, i, angle, radius)
              /\ colors' = StoreColor(colors, i, GradientColor(radius))
              /\ created' = Append(created,
                     [radius |-> radius, angle |-> angle, speed |-> speed])
    /\ u1' = 0
    /\ u2' = 0
    /\ i' = i + 1
    /\ pc' = "for"
    /\ UNCHANGED <<config, pendingFrames, needsUpdate, uploaded,
                   cubeRotation, starfieldRotation, listening, rendererSize,
                   cameraAspect>>

---------------------------------------------------------------------------
(* The animation loop and the resize handler. *)

\* cube.rotation.x += 0.005, in milliradians
CubeStep == 5

\* The number of times animate() has been entered.
Ticks == cubeRotation \div CubeStep

\* requestAnimationFrame(animate): one more callback is pending.
NoRequest(n) == n

requestAnimationFrame(n) == n + 1

\* data.angle += data.speed
AdvanceAssigned(data) == data.speed

Advance(data) == Add(data.angle, data.speed)

\* positions[index], positions[index + 1] as animate writes them.
TickPositionSame(buf, index, data) ==
    [buf EXCEPT ![index] = Fround(Mul(Cos(data.angle), data.radius)),
                ![index + 1] = Fround(Mul(Cos(data.angle), data.radius))]

TickPosition(buf, index, data) ==
    [buf EXCEPT ![index] = Fround(Mul(Cos(data.angle), data.radius)),
                ![index + 1] = Fround(Mul(Sin(data.angle), data.radius))]

\* The entry of animate(), up to the particle loop: the next frame is
\* requested and the cube is turned.  n is the number of callbacks pending
\* when animate is entered.
AnimateBegin(n) ==
    /\ pendingFrames' = requestAnimationFrame(n)
    /\ cubeRotation' = cubeRotation + CubeStep
    /\ i' = 0
    /\ pc' = "tick"
    /\ UNCHANGED <<config, particlesData, positions, colors, u1, u2,
                   needsUpdate, uploaded, starfieldRotation, rendererSize,
                   cameraAspect, created>>

\* The end of the script: the ring is built, the resize listener is added and
\* animate() is called for the first time.
Start ==
    /\ pc = "setup"
    /\ listening' = TRUE
    /\ AnimateBegin(pendingFrames)

\* The browser runs a pending frame callback: animate() is entered again.
FrameCallback ==
    /\ pc = "idle"
    /\ pendingFrames > 0
    /\ Ticks < MaxTicks
    /\ UNCHANGED listening
    /\ AnimateBegin(pendingFrames - 1)

\* const data = particlesData[k]: the element is changed in place.
UpdateMovedToEnd(list, k, data) ==
    Append(SubSeq(list, 1, k) \o SubSeq(list, k + 2, Len(list)), data)

Update(list, k, data) == [list EXCEPT ![k + 1] = data]

\* One pass of animate's particle loop.
TickParticle ==
    /\ pc = "tick"
    /\ i < particleCount
    /\ LET moved == [At(i) EXCEPT !.angle = Advance(At(i))]
       IN  /\ particlesData' = Update(particlesData, i, moved)
           /\ positions' = TickPosition(positions, i * 3, moved)
    /\ i' = i + 1
    /\ UNCHANGED <<config, colors, u1, u2, pc, pendingFrames, needsUpdate,
                   uploaded, cubeRotation, starfieldRotation, listening,
                   rendererSize, cameraAspect, created>>

\* position.needsUpdate = true
NotMarked(flag) == flag

MarkDirty(flag) == TRUE

\* After the particle loop: the position attribute is marked and the
\* starfield is turned.
TickDone ==
    /\ pc = "tick"
    /\ i >= particleCount
    /\ needsUpdate' = MarkDirty(needsUpdate)
    /\ starfieldRotation' = starfieldRotation + starStep
    /\ pc' = "render"
    /\ UNCHANGED <<config, particlesData, positions, colors, i, u1, u2,
                   pendingFrames, uploaded, cubeRotation, listening,
                   rendererSize, cameraAspect, created>>

\* renderer.render(scene, camera): the renderer draws from its copy of the
\* position buffer, which it refreshes when the attribute is marked (or was
\* never uploaded), and clears the mark.
Render ==
    /\ pc = "render"
    /\ uploaded' = IF needsUpdate \/ Ticks = 1 THEN positions ELSE uploaded
    /\ needsUpdate' = FALSE
    /\ pc' = "idle"
    /\ UNCHANGED <<config, particlesData, positions, colors, i, u1, u2,
                   pendingFrames, cubeRotation, starfieldRotation, listening,
                   rendererSize, cameraAspect, created>>

\* onWindowResize, run by the browser between two callbacks.
onWindowResize ==
    /\ pc = "idle"
    /\ listening
    /\ \E w \in WindowSizes :
          /\ cameraAspect' = Aspect(w)
          /\ rendererSize' = w
    /\ UNCHANGED <<config, particlesData, positions, colors, i, u1, u2, pc,
                   pendingFrames, needsUpdate, uploaded, cubeRotation,
                   starfieldRotation, listening, created>>

Next ==
    \/ ForTest
    \/ DrawU1
    \/ DrawU2
    \/ Generate
    \/ Start
    \/ FrameCallback
    \/ TickParticle
    \/ TickDone
    \/ Render
    \/ onWindowResize

Spec == Init /\ [][Next]_vars

\* The frame scheduler runs a pending callback, and a callback that has been
\* entered runs to its end.
FairSpec ==
    /\ Spec
    /\ WF_vars(FrameCallback)
    /\ WF_vars(TickParticle \/ TickDone \/ Render)

\* The script with its constants replaced by a ring band that is empty or
\* inverted, or by a particle count of 0.
DegenerateCopies ==
    {[innerRadius |-> 5 * Scale, outerRadius |-> 5 * Scale,
      speedConstant |-> Scale \div 10, starStep |-> 3],
     [innerRadius |-> 5 * Scale, outerRadius |-> 3 * Scale,
      speedConstant |-> (4 * Scale) \div 10, starStep |-> 1]}

InitDegenerate ==
    \/ InitWith(DegenerateCopies, {0, MaxParticles})
    \/ InitWith({Copy1, Copy2}, {0})

SpecDegenerate == InitDegenerate /\ [][Next]_vars

TypeOK ==
    /\ pc \in {"for", "u1", "u2", "body", "setup", "tick", "render", "idle"}
    /\ Len(particlesData) <= particleCount
    /\ Len(created) = Len(particlesData)
    /\ DOMAIN positions = 0..(particleCount * 3 - 1)
    /\ DOMAIN colors = 0..(particleCount * 3 - 1)

---------------------------------------------------------------------------
(* The claims. *)

\* The indices of the particles pushed so far, counted from 0.
Particles == 0..(Len(particlesData) - 1)

\* The sampler loop is running.
Sampling == pc \in {"for", "u1", "u2", "body"}

\* animate() has been called.
Started == pc \in {"tick", "render", "idle"}

\* The number of times animate's loop has advanced particle k.
Advanced(k) ==
    IF ~Started THEN 0
    ELSE IF pc = "tick" /\ k >= i THEN Ticks - 1
    ELSE Ticks

\* The normalized radius of particle k.
T(k) == normalizedRadius(At(k).radius)

\* colors[3k .. 3k + 2]
ColorOf(k) == <<colors[3 * k], colors[3 * k + 1], colors[3 * k + 2]>>

\* A colour as a Float32Array holds it.
Stored(c) == <<Fround(c[1]), Fround(c[2]), Fround(c[3])>>

\* C1: once the sampler loop has finished, particlesData holds exactly
\* particleCount particles and every radius lies in the closed band
\* [innerRadius, outerRadius]; while the loop runs, the particles pushed so
\* far are i in number and already lie in the band.
C1_RadiusInBand ==
    /\ Len(particlesData) = (IF Sampling THEN i ELSE particleCount)
    /\ \A k \in Particles :
          /\ innerRadius <= At(k).radius
          /\ At(k).radius <= outerRadius

\* C1 witness: the loop has finished, and the samples of two particles fell
\* below and above the band: one radius was clamped to innerRadius, one to
\* outerRadius.
C1_Witness ==
    /\ pc = "setup"
    /\ Len(particlesData) = particleCount
    /\ \E j, k \in Particles :
          /\ At(j).radius = innerRadius
          /\ At(k).radius = outerRadius

\* C2: after n ticks the angle of every particle is its initial angle plus
\* n times its speed, and its radius and speed are those it was created with
\* (inside a tick, the particles the loop has not reached yet are one tick
\* behind).
C2_AngleAfterTicks ==
    \A k \in Particles :
        /\ At(k).angle = created[k + 1].angle + Advanced(k) * At(k).speed
        /\ At(k).radius = created[k + 1].radius
        /\ At(k).speed = created[k + 1].speed

\* C2 witness: all the ticks of the model have completed and a particle has
\* moved by MaxTicks times its speed.
C2_Witness ==
    /\ pc = "idle"
    /\ Ticks = MaxTicks
    /\ \E k \in Particles :
          /\ At(k).speed > 0
          /\ At(k).angle = created[k + 1].angle + MaxTicks * At(k).speed

\* C3: in every state every particle's speed is speedConstant / radius and
\* is positive, and of two particles the one with the smaller radius never
\* has the smaller speed.
C3_SpeedFromRadius ==
    /\ \A k \in Particles :
          /\ At(k).speed = Div(speedConstant, At(k).radius)
          /\ At(k).speed > 0
    /\ \A j, k \in Particles :
          At(j).radius < At(k).radius => At(j).speed >= At(k).speed

\* C3 witness: after the last tick two particles of different radius, the
\* inner one strictly faster.
C3_Witness ==
    /\ pc = "idle"
    /\ Ticks = MaxTicks
    /\ \E j, k \in Particles :
          /\ At(j).radius < At(k).radius
          /\ At(j).speed > At(k).speed

\* C4 as stated: after construction and after every completed tick the
\* position buffer holds exactly cos(angle) * radius, sin(angle) * radius, 0.
C4_PositionExact ==
    pc \in {"setup", "idle"} =>
        \A k \in Particles :
            /\ positions[3 * k] = Mul(Cos(At(k).angle), At(k).radius)
            /\ positions[3 * k + 1] = Mul(Sin(At(k).angle), At(k).radius)
            /\ positions[3 * k + 2] = 0

\* C4 amended: the position buffer holds cos(angle) * radius and
\* sin(angle) * radius rounded to the single precision of the Float32Array,
\* and 0 in the third place, for every particle in every state.
C4_PositionDerived ==
    \A k \in Particles :
        /\ positions[3 * k] = Fround(Mul(Cos(At(k).angle), At(k).radius))
        /\ positions[3 * k + 1] = Fround(Mul(Sin(At(k).angle), At(k).radius))
        /\ positions[3 * k + 2] = 0

\* C4 witness: a tick has completed and moved a particle to a position off
\* the x axis that differs from the one it was created at.
C4_Witness ==
    /\ pc = "idle"
    /\ Ticks >= 1
    /\ \E k \in Particles :
          /\ positions[3 * k + 1] # 0
          /\ positions[3 * k] # Fround(Mul(Cos(created[k + 1].angle), At(k).radius))

\* The ring band is empty or inverted, or there is no particle to make.
Degenerate == innerRadius >= outerRadius \/ particleCount <= 0

C6_DirtyBeforeDraw ==
    /\ needsUpdate => pc = "render"
    /\ pc = "render" => needsUpdate /\ i = particleCount
    /\ pc = "idle" => uploaded = positions

\* C6 witness: the second draw is about to happen, the attribute is marked,
\* and the buffer differs from what the renderer drew last.
C6_Witness ==
    /\ pc = "render"
    /\ Ticks = 2
    /\ needsUpdate
    /\ uploaded # positions

\* C7: index k of particlesData, of the position buffer and of the color
\* buffer is the particle created k-th: no particle is added, removed or
\* moved once the sampler loop has finished, the buffers keep their lengths,
\* and the colours are those the sampler loop wrote.
C7_IndexAligned ==
    /\ DOMAIN positions = 0..(3 * particleCount - 1)
    /\ DOMAIN colors = 0..(3 * particleCount - 1)
    /\ ~Sampling => Len(particlesData) = particleCount
    /\ \A k \in Particles :
          /\ At(k).radius = created[k + 1].radius
          /\ ColorOf(k) = Stored(GradientColor(created[k + 1].radius))
          /\ positions[3 * k] = Fround(Mul(Cos(At(k).angle), created[k + 1].radius))

\* C7 witness: ticks and a resize have happened on a ring whose particles
\* differ in radius and colour.
C7_Witness ==
    /\ pc = "idle"
    /\ Ticks = MaxTicks
    /\ rendererSize = <<16, 9>>
    /\ \E j, k \in Particles :
          /\ At(j).radius # At(k).radius
          /\ ColorOf(j) # ColorOf(k)

\* C8 as stated: the colour buffer holds exactly the inner reference colour
\* at radius = innerRadius, the outer one at radius = outerRadius, and the
\* mid one at t = 0.5.
C8_StopsExact ==
    \A k \in Particles :
        /\ At(k).radius = innerRadius => ColorOf(k) = color1
        /\ At(k).radius = outerRadius => ColorOf(k) = color3
        /\ T(k) = Scale \div 2 => ColorOf(k) = color2

\* C8 amended: the gradient hits its stops, and the colour buffer holds them
\* rounded to the single precision of the Float32Array: color1 at
\* radius = innerRadius, color3 at radius = outerRadius, and at t = 0.5 both
\* branches give color2.
C8_StopsStored ==
    \A k \in Particles :
        /\ At(k).radius = innerRadius =>
              GradientColor(At(k).radius) = color1 /\ ColorOf(k) = Stored(color1)
        /\ At(k).radius = outerRadius =>
              GradientColor(At(k).radius) = color3 /\ ColorOf(k) = Stored(color3)
        /\ T(k) = Scale \div 2 =>
              /\ lerpColors(color1, color2, Mul(T(k), 2 * Scale)) = color2
              /\ GradientColor(At(k).radius) = color2
              /\ ColorOf(k) = Stored(color2)

\* C8 witness: a particle on the outer edge of the band and one at its
\* middle have been coloured.
C8_Witness ==
    \E j, k \in Particles :
        /\ At(j).radius = outerRadius
        /\ T(k) = Scale \div 2

\* C9: the first loop of getNormalRandom runs only while u1 is 0 and the
\* second only while u2 is 0, and the Box-Muller formula is reached with
\* u1 > 0 and u2 > 0: the logarithm of u1 is finite.
C9_NoZeroToLog ==
    /\ pc = "u1" => u1 = 0 /\ u2 = 0
    /\ pc = "u2" => u1 > 0 /\ u2 = 0
    /\ pc = "body" => u1 > 0 /\ u2 > 0 /\ IsFinite(Log(u1))

\* C9 witness: the formula is reached for the second particle with the
\* smallest non-zero draw.
C9_Witness ==
    /\ pc = "body"
    /\ i = 1
    /\ u1 = 1
    /\ u2 > 0

\* C10: once animate() has been called exactly one frame callback is
\* pending, animate is entered only when no tick is in progress, and under
\* the fair scheduler tick follows tick: every tick of the model comes to
\* run and to complete.
C10_OneFrameChain ==
    /\ [](Started => pendingFrames = 1)
    /\ [][Ticks' # Ticks => pc \in {"setup", "idle"} /\ pc' = "tick"]_vars
    /\ Started ~> (pc = "idle" /\ Ticks = MaxTicks)

\* C10 witness: all the ticks of the model have run, a resize among them,
\* and one callback is pending.
C10_Witness ==
    /\ pc = "idle"
    /\ Ticks = MaxTicks
    /\ pendingFrames = 1
    /\ rendererSize = <<16, 9>>

===========================================================================
